---- MODULE Spec2Model ----
(***************************************************************************)
(* Model of StockSense AI (src/app.py): the Portfolio ledger, the          *)
(* technical indicators (MA20, MA50, RSI) and the command-line run.        *)
(*                                                                         *)
(* Three specifications share the variables:                               *)
(*   Spec     - calls on one Portfolio object                              *)
(*   SpecInd  - add_technical_indicators applied to a close-price series   *)
(*   SpecCli  - one run of "python app.py <arguments>"                     *)
(*   SpecApp  - one Analyze interaction of run_streamlit_app               *)
(***************************************************************************)
EXTENDS Integers, Sequences, FiniteSets, TLC

VARIABLES
    stocks,      \* Portfolio.stocks: the dict, as its items in insertion order
    lastCall,    \* the last call made on the portfolio
    closes,      \* df['Close'] handed to add_technical_indicators
    df,          \* the indicator columns of df, or NoColumns before the call
    pc,          \* position of the command-line run
    args,        \* the parsed argparse namespace of the run
    info,        \* local 'info' of the block that is executing (NoInfo if unset)
    stdout,      \* the lines printed so far, oldest first
    page,        \* the messages given to streamlit so far, oldest first
    fetches,     \* the quote / history requests issued so far, oldest first
    exitStatus,  \* exit status of the process, Running until it exits
    argv,        \* sys.argv[1:], the command-line arguments of the process
    widgets,     \* what the streamlit widgets return in the script run
    unhandled    \* the exception that escaped the script run, NoException if none

vars == <<stocks, lastCall, closes, df, pc, args, info, stdout, page, fetches, exitStatus,
          argv, widgets, unhandled>>

portfolioVars == <<stocks, lastCall>>
indicatorVars == <<closes, df>>
appVars == <<widgets, unhandled>>
cliVars == <<pc, args, info, stdout, page, fetches, exitStatus, argv, appVars>>

----------------------------------------------------------------------------
(* Bounds of the model *)

\* largest absolute share count a holding may reach in the model
MaxHeld == 3
\* largest absolute share argument of a call (the code accepts any integer)
MaxShares == 2
\* longest close-price series handed to add_technical_indicators
MaxLen == 52

----------------------------------------------------------------------------
(* Strings: a symbol is the sequence of its characters *)

\* str.upper() on one character
UpperChar(c) ==
    CASE c = "a" -> "A"
      [] c = "b" -> "B"
      [] c = "x" -> "X"
      [] OTHER -> c

\* str.upper()
upper(s) == [i \in DOMAIN s |-> UpperChar(s[i])]

\* the symbols the callers pass
Symbols == { <<"a", "b">>, <<"A", "B">>, <<"x">> }

ShareArgs == (-MaxShares)..MaxShares

----------------------------------------------------------------------------
(* The dict Portfolio.stocks: items in insertion order, keys unique *)

Item(symbol, shares) == [symbol |-> symbol, shares |-> shares]

\* symbol in self.stocks
Contains(d, symbol) == \E i \in DOMAIN d : d[i].symbol = symbol

\* position of the key in the dict (the key is present)
IndexOf(d, symbol) == CHOOSE i \in DOMAIN d : d[i].symbol = symbol

\* self.stocks.get(symbol, default)
DictGet(d, symbol, default) ==
    IF Contains(d, symbol) THEN d[IndexOf(d, symbol)].shares ELSE default

\* self.stocks[symbol] = value: an existing key keeps its place, a new key
\* goes to the end
DictSet(d, symbol, value) ==
    IF Contains(d, symbol)
    THEN [d EXCEPT ![IndexOf(d, symbol)].shares = value]
    ELSE Append(d, Item(symbol, value))

\* del self.stocks[symbol]
DictDel(d, symbol) ==
    LET k == IndexOf(d, symbol)
    IN  [i \in 1..(Len(d) - 1) |-> IF i < k THEN d[i] ELSE d[i + 1]]

\* the keys of the dict
Keys(d) == { d[i].symbol : i \in DOMAIN d }

\* the dict as a mapping (dict equality ignores the order)
Mapping(d) == [s \in Keys(d) |-> DictGet(d, s, 0)]

\* max(a, b)
Max(a, b) == IF a >= b THEN a ELSE b

----------------------------------------------------------------------------
(* Portfolio *)

\* Portfolio.__init__
PortfolioInit == << >>

\* Portfolio.add_stock: the dict after the call
add_stock(d, symbol, shares) ==
    LET sym == upper(symbol)
    IN  DictSet(d, sym, DictGet(d, sym, 0) + shares)

\* remove_stock without the clamp at 0
remove_stock_unclamped(d, symbol, shares) ==
    LET sym == upper(symbol)
    IN  IF Contains(d, sym)
        THEN LET d1 == DictSet(d, sym, DictGet(d, sym, 0) - shares)
             IN  IF DictGet(d1, sym, 0) = 0 THEN DictDel(d1, sym) ELSE d1
        ELSE d

\* Portfolio.remove_stock: the dict after the call
remove_stock(d, symbol, shares) ==
    LET sym == upper(symbol)
    IN  IF Contains(d, sym)
        THEN LET d1 == DictSet(d, sym, Max(0, DictGet(d, sym, 0) - shares))
             IN  IF DictGet(d1, sym, 0) = 0 THEN DictDel(d1, sym) ELSE d1
        ELSE d

\* Portfolio.get_holdings: a copy of the dict
get_holdings(d) == d

----------------------------------------------------------------------------
(* Values of the quote gateway (yfinance): a field of Ticker.info is absent, *)
(* None or a number                                                          *)

AbsentField == [kind |-> "absent", val |-> 0]
NoneField == [kind |-> "none", val |-> 0]
Num(n) == [kind |-> "num", val |-> n]

\* the prices the gateway quotes
Prices == {2, 5}

FieldValues == {AbsentField, NoneField} \cup { Num(p) : p \in Prices }

\* yf.Ticker(symbol).info: the access raises, or gives the info dict
QuoteRaises == [raised |-> TRUE, currentPrice |-> AbsentField]
QuoteInfo(v) == [raised |-> FALSE, currentPrice |-> v]
QuoteOutcomes == {QuoteRaises} \cup { QuoteInfo(v) : v \in FieldValues }

\* info.get(key, default) on the field of the info dict
InfoGet(field, default) == IF field.kind = "absent" THEN default ELSE field

\* get_value whose loop stops at the first exception
RECURSIVE get_value_from_break(_, _, _, _)
get_value_from_break(d, quote, i, total) ==
    IF i > Len(d) THEN total
    ELSE LET q == quote[d[i].symbol]
             price == InfoGet(q.currentPrice, Num(0))
         IN  IF q.raised THEN total
             ELSE IF price.kind = "none" THEN total
             ELSE get_value_from_break(d, quote, i + 1, total + price.val * d[i].shares)

\* Portfolio.get_value, the loop from item i on with the running total:
\* an exception of the lookup, or of None * shares, is caught and the loop
\* goes on with the next item
RECURSIVE get_value_from(_, _, _, _)
get_value_from(d, quote, i, total) ==
    IF i > Len(d) THEN total
    ELSE LET q == quote[d[i].symbol]
             price == InfoGet(q.currentPrice, Num(0))
         IN  IF q.raised THEN get_value_from(d, quote, i + 1, total)
             ELSE IF price.kind = "none" THEN get_value_from(d, quote, i + 1, total)
             ELSE get_value_from(d, quote, i + 1, total + price.val * d[i].shares)

\* Portfolio.get_value
get_value(d, quote) == get_value_from(d, quote, 1, 0)

----------------------------------------------------------------------------
(* Calls on the portfolio *)

\* the symbols as the ledger stores them
UpperSymbols == { upper(s) : s \in Symbols }

\* what the gateway answers for each held symbol during one get_value
Quotes(d) == [Keys(d) -> QuoteOutcomes]

\* no gateway request
NoQuote == [s \in {} |-> QuoteRaises]

\* one call: the operation, its arguments, the dict before it, whether it
\* raised and what it returned
Call(op, symbol, shares, quote, before, raised, result) ==
    [op |-> op, symbol |-> symbol, shares |-> shares, quote |-> quote,
     before |-> before, raised |-> raised, result |-> result]

\* no call made yet
NoCall == Call("none", << >>, 0, NoQuote, << >>, FALSE, 0)

\* the model's bound on the counts
WithinBound(d) == \A i \in DOMAIN d : d[i].shares \in (-MaxHeld)..MaxHeld

AddStock(symbol, shares) ==
    /\ WithinBound(add_stock(stocks, symbol, shares))
    /\ stocks' = add_stock(stocks, symbol, shares)
    /\ lastCall' = Call("add_stock", symbol, shares, NoQuote, stocks, FALSE, 0)
    /\ UNCHANGED <<indicatorVars, cliVars>>

RemoveStock(symbol, shares) ==
    /\ WithinBound(remove_stock(stocks, symbol, shares))
    /\ stocks' = remove_stock(stocks, symbol, shares)
    /\ lastCall' = Call("remove_stock", symbol, shares, NoQuote, stocks, FALSE, 0)
    /\ UNCHANGED <<indicatorVars, cliVars>>

GetValue(quote) ==
    /\ lastCall' = Call("get_value", << >>, 0, quote, stocks, FALSE,
                       get_value(stocks, quote))
    /\ UNCHANGED <<stocks, indicatorVars, cliVars>>

----------------------------------------------------------------------------
(* Floating-point values of the indicator columns: NaN, an infinity, or a  *)
(* number kept exactly as the fraction n / d with d > 0; a zero has a sign *)
(* (neg is TRUE for -0.0 only)                                             *)

NaN == [kind |-> "nan", n |-> 0, d |-> 1, neg |-> FALSE]
Inf == [kind |-> "inf", n |-> 1, d |-> 1, neg |-> FALSE]
NegInf == [kind |-> "inf", n |-> -1, d |-> 1, neg |-> FALSE]
Frac(n, d) == [kind |-> "num", n |-> n, d |-> d, neg |-> FALSE]
Float(n) == Frac(n, 1)
NegZero == [kind |-> "num", n |-> 0, d |-> 1, neg |-> TRUE]

IsNaN(a) == a.kind = "nan"
IsNum(a) == a.kind = "num"

\* the sign of a value that is not NaN
Sign(a) == IF a.n > 0 THEN 1 ELSE IF a.n < 0 THEN -1 ELSE 0

\* the sign bit of a value that is not NaN: set for negative values and -0.0
SignBit(a) == a.n < 0 \/ a.neg

\* a zero and an infinity of the given sign bit
Zero(negative) == IF negative THEN NegZero ELSE Float(0)
Infinity(negative) == IF negative THEN NegInf ELSE Inf

\* a fraction with its denominator made positive
Normal(n, d) == IF d < 0 THEN Frac(-n, -d) ELSE Frac(n, d)

\* -a
FNeg(a) ==
    IF IsNaN(a) THEN NaN
    ELSE IF a.n = 0 THEN Zero(~a.neg)
    ELSE [a EXCEPT !.n = -a.n]

\* a + b: a sum that is zero is +0.0 unless both terms are -0.0
FAdd(a, b) ==
    IF IsNaN(a) \/ IsNaN(b) THEN NaN
    ELSE IF IsNum(a) /\ IsNum(b)
         THEN IF a.n * b.d + b.n * a.d = 0 THEN Zero(a.neg /\ b.neg)
              ELSE Frac(a.n * b.d + b.n * a.d, a.d * b.d)
    ELSE IF IsNum(a) THEN b
    ELSE IF IsNum(b) THEN a
    ELSE IF a.n = b.n THEN a ELSE NaN

\* a - b
FSub(a, b) == FAdd(a, FNeg(b))

\* a / b: the sign of the result is the product of the signs, zeros
\* included; x / 0 is an infinity, 0 / 0 and inf / inf are NaN
FDiv(a, b) ==
    IF IsNaN(a) \/ IsNaN(b) THEN NaN
    ELSE IF IsNum(a) /\ IsNum(b)
         THEN IF b.n = 0
              THEN IF a.n = 0 THEN NaN ELSE Infinity(SignBit(a) # SignBit(b))
              ELSE IF a.n = 0 THEN Zero(SignBit(a) # SignBit(b))
              ELSE Normal(a.n * b.d, a.d * b.n)
    ELSE IF IsNum(a) THEN Zero(SignBit(a) # SignBit(b))
    ELSE IF IsNum(b) THEN Infinity(SignBit(a) # SignBit(b))
    ELSE NaN

\* a > 0 and a < 0: comparisons with NaN are False
FPositive(a) == ~IsNaN(a) /\ a.n > 0
FNegative(a) == ~IsNaN(a) /\ a.n < 0

\* a = b as numbers
FEq(a, b) == IsNum(a) /\ IsNum(b) /\ a.n * b.d = b.n * a.d

\* a <= b as numbers
FLeq(a, b) == IsNum(a) /\ IsNum(b) /\ a.n * b.d <= b.n * a.d

----------------------------------------------------------------------------
(* pandas Series operations used by add_technical_indicators; a Series is  *)
(* the sequence of its values, position 1 first                            *)

\* Series.diff(): the first value has no predecessor and is NaN
diff(x) == [i \in DOMAIN x |-> IF i = 1 THEN NaN ELSE FSub(x[i], x[i - 1])]

\* x.where(x > 0, 0): keeps the values that compare greater than 0 and
\* replaces every other value, NaN included, by 0
where_positive(x) == [i \in DOMAIN x |-> IF FPositive(x[i]) THEN x[i] ELSE Float(0)]

\* x.where(x < 0, 0)
where_negative(x) == [i \in DOMAIN x |-> IF FNegative(x[i]) THEN x[i] ELSE Float(0)]

\* the negation left out
neg_omitted(x) == x

\* -x
neg(x) == [i \in DOMAIN x |-> FNeg(x[i])]

\* x[from] + ... + x[to]
RECURSIVE window_sum(_, _, _)
window_sum(x, from, to) ==
    IF from > to THEN Float(0) ELSE FAdd(window_sum(x, from, to - 1), x[to])

\* every value of x[from..to] compares equal to x[to]
SameValues(x, from, to) == \A j \in from..to : FEq(x[j], x[to])

\* the mean of the window x[from..to] of w observations: NaN when one of
\* them is NaN; the last value itself when all are equal (so that a window
\* of -0.0 has the mean -0.0); the sum divided by w otherwise
window_mean(x, from, to, w) ==
    LET total == window_sum(x, from, to)
    IN  IF IsNaN(total) THEN NaN
        ELSE IF SameValues(x, from, to) THEN x[to]
        ELSE FDiv(total, Float(w))

\* a rolling mean that starts one position late
rolling_mean_late(x, w) ==
    [i \in DOMAIN x |-> IF i <= w THEN NaN ELSE window_mean(x, i - w + 1, i, w)]

\* x.rolling(window=w).mean(): min_periods is the window, so that the value
\* is NaN until w observations exist and whenever one of them is NaN
rolling_mean(x, w) ==
    [i \in DOMAIN x |-> IF i < w THEN NaN ELSE window_mean(x, i - w + 1, i, w)]

\* elementwise a / b
series_div(a, b) == [i \in DOMAIN a |-> FDiv(a[i], b[i])]

\* the windows of add_technical_indicators
MA20Window == 20
MA50Window == 50
RSIWindow == 14

\* 100 - (100 / (1 + rs))
rsi_of(rs) ==
    [i \in DOMAIN rs |-> FSub(Float(100), FDiv(Float(100), FAdd(Float(1), rs[i])))]

\* add_technical_indicators: the columns it adds to df
add_technical_indicators(close) ==
    LET delta == diff(close)
        gain == rolling_mean(where_positive(delta), RSIWindow)
        loss == rolling_mean(neg(where_negative(delta)), RSIWindow)
        rs == series_div(gain, loss)
    IN  [added |-> TRUE,
         MA20 |-> rolling_mean(close, MA20Window),
         MA50 |-> rolling_mean(close, MA50Window),
         RSI |-> rsi_of(rs)]

----------------------------------------------------------------------------
(* The close-price series: a level, then k steps of one slope, then steps  *)
(* of another slope                                                        *)

BaseClose == 100
Slopes == {-1, 0, 1}

Min(a, b) == IF a <= b THEN a ELSE b

SeriesOf(n, s1, k, s2) ==
    [i \in 1..n |-> Float(BaseClose + s1 * Min(i - 1, k) + s2 * Max(0, i - 1 - k))]

CloseSeries ==
    { SeriesOf(n, s1, k, s2) : n \in 0..MaxLen, s1 \in Slopes, k \in 0..MaxLen,
                               s2 \in Slopes }

\* df before add_technical_indicators: no indicator columns
NoColumns == [added |-> FALSE, MA20 |-> << >>, MA50 |-> << >>, RSI |-> << >>]

AddTechnicalIndicators ==
    /\ ~df.added
    /\ df' = add_technical_indicators(closes)
    /\ UNCHANGED <<closes, portfolioVars, cliVars>>

----------------------------------------------------------------------------
(* One run of "python app.py <arguments>" with at least one argument       *)

\* args.symbol is None when --symbol is omitted
NoSymbol == [given |-> FALSE, value |-> << >>]
SymbolArg(s) == [given |-> TRUE, value |-> s]

\* the default of --period
DefaultPeriod == <<"1", "m", "o">>

\* the periods the runs ask for
Periods == {DefaultPeriod, <<"5", "d">>}

\* one command-line argument: an option string, or any other text
Opt(name) == [opt |-> name, text |-> << >>]
Val(text) == [opt |-> "", text |-> text]
IsValue(tok) == tok.opt = ""

\* the command lines of the runs
Argvs ==
    { <<Opt("--period"), Val(<<"5", "d">>)>>,
      <<Opt("--portfolio")>>,
      <<Opt("--period"), Val(<<"5", "d">>), Opt("--portfolio")>>,
      <<Opt("--symbol"), Val(<<"x">>)>>,
      <<Opt("--symbol"), Val(<<"a", "b">>)>>,
      <<Opt("--symbol"), Val(<<"A", "B">>), Opt("--period"), Val(<<"5", "d">>)>>,
      <<Opt("--symbol"), Val(<< >>)>>,
      <<Opt("--symbol"), Val(<<"x">>), Opt("--portfolio")>>,
      <<Opt("--symbol"), Val(<<"x">>), Opt("--symbol"), Val(<<"a", "b">>)>>,
      <<Val(<<"b", "o", "g", "u", "s">>)>>,
      <<Opt("--symbol"), Val(<<"x">>), Opt("--bogus")>>,
      <<Opt("--symbol")>>,
      <<Opt("--period")>>,
      <<Opt("--help")>>,
      <<Opt("-h")>>,
      <<Val(<<"b", "o", "g", "u", "s">>), Opt("--help")>> }

\* the namespace of the defaults
DefaultNamespace == [symbol |-> NoSymbol, period |-> DefaultPeriod, portfolio |-> FALSE]

\* what parse_args does: it returns the namespace, or ends the process
\* (SystemExit) with the help text or with an error message
Parsed(ns) == [exit |-> "none", ns |-> ns]
ParseHelp == [exit |-> "help", ns |-> DefaultNamespace]
ParseError == [exit |-> "error", ns |-> DefaultNamespace]

\* parser.parse_args() from argument i on: ns holds the options seen so
\* far, extras tells whether an unrecognized argument was seen. An option
\* that lacks its value ends the parse at once, as does the help option;
\* unrecognized arguments are reported after the last argument
RECURSIVE parse_from(_, _, _, _)
parse_from(av, i, ns, extras) ==
    IF i > Len(av) THEN (IF extras THEN ParseError ELSE Parsed(ns))
    ELSE IF av[i].opt \in {"-h", "--help"} THEN ParseHelp
    ELSE IF av[i].opt = "--portfolio"
         THEN parse_from(av, i + 1, [ns EXCEPT !.portfolio = TRUE], extras)
    ELSE IF av[i].opt \in {"--symbol", "--period"}
         THEN IF i + 1 > Len(av) \/ ~IsValue(av[i + 1]) THEN ParseError
              ELSE IF av[i].opt = "--symbol"
              THEN parse_from(av, i + 2,
                              [ns EXCEPT !.symbol = SymbolArg(av[i + 1].text)], extras)
              ELSE parse_from(av, i + 2, [ns EXCEPT !.period = av[i + 1].text], extras)
    ELSE parse_from(av, i + 1, ns, TRUE)

\* parser.parse_args()
parse_args(av) == parse_from(av, 1, DefaultNamespace, FALSE)

\* 'not args.symbol': None and the empty string are false
Falsy(symbol) == ~symbol.given \/ symbol.value = << >>

\* Ticker.info as the run reads it: the access raises, or gives the fields
InfoRaises ==
    [raised |-> TRUE, currentPrice |-> AbsentField,
     regularMarketChangePercent |-> AbsentField, volume |-> AbsentField]
InfoDict(price, change, volume) ==
    [raised |-> FALSE, currentPrice |-> price,
     regularMarketChangePercent |-> change, volume |-> volume]
NoInfo == InfoRaises

InfoOutcomes ==
    { InfoRaises,
      InfoDict(Num(5), Num(1), Num(7)),
      InfoDict(AbsentField, NoneField, Num(7)),
      InfoDict(Num(2), AbsentField, AbsentField),
      InfoDict(Num(2), Num(1), NoneField) }

\* Ticker.history(period): the call raises, or gives the bars (their closes)
HistoryRaises == [raised |-> TRUE, close |-> << >>]
HistoryBars(c) == [raised |-> FALSE, close |-> c]
HistoryOutcomes ==
    { HistoryRaises, HistoryBars(<< >>), HistoryBars(SeriesOf(3, 1, 1, -1)) }

Line(kind) == [kind |-> kind, rows |-> << >>]

\* hist_data.tail(k) of the indicator columns
TailOf(x, k) == SubSeq(x, Max(1, Len(x) - k + 1), Len(x))
TailLine(close) ==
    LET ind == add_technical_indicators(close)
    IN  [kind |-> "tail",
         rows |-> <<TailOf(close, 5), TailOf(ind.MA20, 5), TailOf(ind.MA50, 5),
                    TailOf(ind.RSI, 5)>>]

\* a request to the gateway: who made it, for what, and whether it raised
QuoteFetch(by, symbol, raised) ==
    [by |-> by, kind |-> "quote", symbol |-> symbol, period |-> << >>, raised |-> raised]
HistoryFetch(by, symbol, period, raised) ==
    [by |-> by, kind |-> "history", symbol |-> symbol, period |-> period,
     raised |-> raised]

\* the process is running, or has exited with a status
Running == [exited |-> FALSE, code |-> 0]
Exited(code) == [exited |-> TRUE, code |-> code]

\* run_cli is called by both __main__ blocks; r is 1 in the first and 2 in
\* the second
Runs == {1, 2}
At(r, where) == <<"run_cli", r, where>>

\* where control goes when run_cli returns
AfterCli(r) == IF r = 1 THEN <<"main", 1, "dashboard">> ELSE <<"main", 2, "exit">>

\* the first __main__ block: sys.argv has arguments, run_cli() is called
MainStart ==
    /\ pc = <<"main", 1, "start">>
    /\ Len(argv) > 0
    /\ pc' = At(1, "start")
    /\ UNCHANGED <<info, stdout, page, fetches, exitStatus, args,
                   portfolioVars, indicatorVars, appVars, argv>>

\* the process has ended
Ended == <<"main", 2, "done">>

\* run_cli up to the first gateway call; parse_args ends the process with
\* status 2 on a usage error (the message goes to stderr) and with status 0
\* after printing the help text
RunCliStart(r) ==
    /\ pc = At(r, "start")
    /\ LET p == parse_args(argv)
       IN  IF p.exit = "error"
           THEN /\ exitStatus' = Exited(2)
                /\ pc' = Ended
                /\ UNCHANGED <<stdout, args>>
           ELSE IF p.exit = "help"
           THEN /\ stdout' = Append(stdout, Line("help"))
                /\ exitStatus' = Exited(0)
                /\ pc' = Ended
                /\ UNCHANGED args
           ELSE /\ args' = p.ns
                /\ UNCHANGED exitStatus
                /\ IF p.ns.portfolio
                   THEN /\ stdout' = Append(stdout, Line("portfolio"))
                        /\ pc' = AfterCli(r)
                   ELSE IF Falsy(p.ns.symbol)
                   THEN /\ stdout' = Append(stdout, Line("usage"))
                        /\ pc' = AfterCli(r)
                   ELSE /\ stdout' = Append(stdout, Line("fetching"))
                        /\ pc' = At(r, "quote")
    /\ UNCHANGED <<info, page, fetches, argv, portfolioVars, indicatorVars, appVars>>

\* run_cli: stock.info and the three printed fields
RunCliQuote(r, q) ==
    /\ pc = At(r, "quote")
    /\ fetches' = Append(fetches, QuoteFetch("run_cli", upper(args.symbol.value), q.raised))
    /\ IF q.raised
       THEN /\ stdout' = Append(stdout, Line("error"))
            /\ info' = NoInfo
            /\ pc' = AfterCli(r)
       ELSE /\ stdout' = stdout \o <<Line("price"), Line("marketcap"), Line("pe")>>
            /\ info' = q
            /\ pc' = At(r, "history")
    /\ UNCHANGED <<page, exitStatus, args, portfolioVars, indicatorVars, appVars, argv>>

\* run_cli: stock.history and the printed tail
RunCliHistory(r, h) ==
    /\ pc = At(r, "history")
    /\ fetches' = Append(fetches, HistoryFetch("run_cli", upper(args.symbol.value),
                                                args.period, h.raised))
    /\ stdout' = Append(stdout,
                        IF h.raised THEN Line("error")
                        ELSE IF h.close = << >> THEN Line("nodata")
                        ELSE TailLine(h.close))
    /\ info' = NoInfo
    /\ pc' = AfterCli(r)
    /\ UNCHANGED <<page, exitStatus, args, portfolioVars, indicatorVars, appVars, argv>>

\* st.text_input(label, value=...) outside 'streamlit run': the value
DashboardSymbol == upper(<<"A", "A", "P", "L">>)
\* st.selectbox(label, options, index=2) outside 'streamlit run'
DashboardPeriod == <<"1", "m", "o">>
\* st.button(...) outside 'streamlit run'
DashboardButton == FALSE

Msg(kind) == [kind |-> kind]

\* the statements after the call in the first __main__ block, up to the
\* quote request
DashboardStart ==
    /\ pc = <<"main", 1, "dashboard">>
    /\ page' = page \o <<Msg("title"), Msg("markdown")>>
    /\ pc' = IF DashboardButton \/ DashboardSymbol # << >>
             THEN <<"main", 1, "quote">> ELSE <<"main", 1, "footer">>
    /\ UNCHANGED <<info, stdout, fetches, exitStatus, args, portfolioVars, indicatorVars, appVars, argv>>

\* stock.info and the three metrics; formatting a None change with .2f raises
DashboardQuote(q) ==
    /\ pc = <<"main", 1, "quote">>
    /\ fetches' = Append(fetches, QuoteFetch("main", DashboardSymbol, q.raised))
    /\ IF q.raised \/ InfoGet(q.regularMarketChangePercent, Num(0)).kind = "none"
       THEN /\ page' = page \o <<Msg("error"), Msg("info")>>
            /\ info' = NoInfo
            /\ pc' = <<"main", 1, "footer">>
       ELSE /\ page' = Append(page, Msg("metrics"))
            /\ info' = q
            /\ pc' = <<"main", 1, "history">>
    /\ UNCHANGED <<stdout, exitStatus, args, portfolioVars, indicatorVars, appVars, argv>>

\* stock.history, the chart, the company information and the table;
\* formatting a volume that is absent ('N/A') or None with ',' raises
DashboardHistory(h) ==
    /\ pc = <<"main", 1, "history">>
    /\ fetches' = Append(fetches, HistoryFetch("main", DashboardSymbol, DashboardPeriod,
                                                h.raised))
    /\ page' = page \o
         (IF h.raised THEN <<Msg("error"), Msg("info")>>
          ELSE (IF h.close # << >> THEN <<Msg("chart")>> ELSE << >>) \o
               (IF InfoGet(info.volume, NoneField).kind # "num"
                THEN <<Msg("company"), Msg("error"), Msg("info")>>
                ELSE <<Msg("company"), Msg("table")>>))
    /\ info' = NoInfo
    /\ pc' = <<"main", 1, "footer">>
    /\ UNCHANGED <<stdout, exitStatus, args, portfolioVars, indicatorVars, appVars, argv>>

\* the footer, then the second __main__ block calls run_cli() again
DashboardFooter ==
    /\ pc = <<"main", 1, "footer">>
    /\ page' = page \o <<Msg("markdown"), Msg("caption")>>
    /\ pc' = At(2, "start")
    /\ UNCHANGED <<info, stdout, fetches, exitStatus, args, portfolioVars, indicatorVars, appVars, argv>>

\* the module ends: no exception is pending, the interpreter exits with 0
Exit ==
    /\ pc = <<"main", 2, "exit">>
    /\ exitStatus' = Exited(0)
    /\ pc' = Ended
    /\ UNCHANGED <<info, stdout, page, fetches, args, portfolioVars, indicatorVars, appVars, argv>>

----------------------------------------------------------------------------
(* News and sentiment *)

\* str.lower() on one character
LowerChar(c) ==
    CASE c = "U" -> "u"
      [] c = "P" -> "p"
      [] c = "G" -> "g"
      [] c = "D" -> "d"
      [] c = "L" -> "l"
      [] OTHER -> c

\* str.lower()
lower(s) == [i \in DOMAIN s |-> LowerChar(s[i])]

\* word in text
In(word, text) ==
    \E i \in 0..(Len(text) - Len(word)) : SubSeq(text, i + 1, i + Len(word)) = word

\* simple_sentiment
simple_sentiment(text) ==
    LET t == lower(text)
    IN  IF In(<<"u", "p">>, t) \/ In(<<"g", "a", "i", "n">>, t) THEN "Positive"
        ELSE IF In(<<"d", "o", "w", "n">>, t) \/ In(<<"l", "o", "s", "s">>, t)
        THEN "Negative"
        ELSE "Neutral"

\* the headlines of the articles the news service returns
Titles == { <<"U", "p">>, <<"l", "o", "s", "s">>, <<"o", "k">> }

\* one call of fetch_news: whether config.ini has the API key, whether the
\* request raises, and the titles of the articles of the response
NewsOutcome(key, raised, titles) == [key |-> key, raised |-> raised, titles |-> titles]
NewsOutcomes ==
    { NewsOutcome(FALSE, FALSE, << >>),
      NewsOutcome(TRUE, TRUE, << >>),
      NewsOutcome(TRUE, FALSE, << >>),
      NewsOutcome(TRUE, FALSE, << <<"U", "p">>, <<"l", "o", "s", "s">> >>),
      NewsOutcome(TRUE, FALSE, << <<"o", "k">>, <<"o", "k">>, <<"U", "p">>,
                                  <<"o", "k">>, <<"o", "k">>, <<"l", "o", "s", "s">> >>) }

\* fetch_news: the articles it returns
fetch_news(n) ==
    IF ~n.key THEN << >>
    ELSE IF n.raised THEN << >>
    ELSE SubSeq(n.titles, 1, Min(5, Len(n.titles)))

----------------------------------------------------------------------------
(* Email alerts *)

\* one call of send_email_alert: whether config.ini has the SMTP settings
\* and whether the SMTP session raises
MailOutcome(config, raised) == [config |-> config, raised |-> raised]
MailOutcomes ==
    { MailOutcome(FALSE, FALSE), MailOutcome(TRUE, TRUE), MailOutcome(TRUE, FALSE) }

\* send_email_alert: its return value
send_email_alert(to_email, m) ==
    IF ~m.config \/ to_email = << >> THEN FALSE
    ELSE IF m.raised THEN FALSE
    ELSE TRUE

----------------------------------------------------------------------------
(* One Analyze interaction of run_streamlit_app: the script run in which   *)
(* st.button("Analyze") returns True                                       *)

\* the values the widgets of the run return
Emails == { << >>, <<"a", "@", "b">> }
AlertPrices == {0, 3}
WidgetValues ==
    [add : BOOLEAN,
     form_symbol : {<<"x">>},
     shares : {1},
     stock_symbol : {<<"a", "b">>, <<"x">>},
     period : Periods,
     set_alert : BOOLEAN,
     alert_email : Emails,
     alert_price : AlertPrices]
NoWidgets ==
    [add |-> FALSE, form_symbol |-> << >>, shares |-> 1,
     stock_symbol |-> << >>, period |-> DefaultPeriod, set_alert |-> FALSE,
     alert_email |-> << >>, alert_price |-> 0]

\* st.session_state['portfolio'] at the start of the script run: new, or
\* filled by the form in earlier runs
SessionPortfolios ==
    { PortfolioInit, add_stock(PortfolioInit, <<"a", "b">>, 2) }

NoException == "none"

\* a message with the sentiment of an article
ArticleMsg(title) == [kind |-> simple_sentiment(title)]

\* a call of the news service or of the mail server
NewsFetch(symbol, raised) ==
    [by |-> "app", kind |-> "news", symbol |-> symbol, period |-> << >>, raised |-> raised]
MailSend(symbol, raised) ==
    [by |-> "app", kind |-> "smtp", symbol |-> symbol, period |-> << >>, raised |-> raised]

AppAt(where) == <<"app", 1, where>>

\* the portfolio after the form of the sidebar: 'Add to Portfolio' calls
\* add_stock
AfterForm(d, w) == IF w.add THEN add_stock(d, w.form_symbol, w.shares) ELSE d

\* the stock.info requests of one get_value, in the order of the holdings
GetValueFetches(d, quote) ==
    [i \in DOMAIN d |-> QuoteFetch("get_value", d[i].symbol, quote[d[i].symbol].raised)]

\* run_streamlit_app up to the Analyze button: the page head, the form of
\* the sidebar, the holdings with their total value
AppSidebar(quote) ==
    /\ pc = AppAt("sidebar")
    /\ LET held == AfterForm(stocks, widgets)
       IN  /\ stocks' = held
           /\ IF get_holdings(held) # << >>
              THEN /\ lastCall' = Call("get_value", << >>, 0, quote, held, FALSE,
                                       get_value(held, quote))
                   /\ fetches' = fetches \o GetValueFetches(held, quote)
                   /\ page' = page \o <<Msg("title"), Msg("markdown"), Msg("tracker")>> \o
                              (IF widgets.add THEN <<Msg("added")>> ELSE << >>) \o
                              <<Msg("holdings")>> \o
                              [i \in DOMAIN held |-> Msg("holding")] \o
                              <<Msg("total"), Msg("header")>>
              ELSE /\ UNCHANGED <<lastCall, fetches>>
                   /\ page' = page \o <<Msg("title"), Msg("markdown"), Msg("tracker")>> \o
                              (IF widgets.add THEN <<Msg("added")>> ELSE << >>) \o
                              <<Msg("noholdings"), Msg("header")>>
    /\ pc' = AppAt("quote")
    /\ UNCHANGED <<info, stdout, exitStatus, args, argv, widgets, unhandled, indicatorVars>>

\* stock.info and the four lines written from it
AppQuote(q) ==
    /\ pc = AppAt("quote")
    /\ fetches' = Append(fetches, QuoteFetch("app", widgets.stock_symbol, q.raised))
    /\ IF q.raised
       THEN /\ page' = Append(page, Msg("error"))
            /\ info' = NoInfo
            /\ pc' = AppAt("news")
       ELSE /\ page' = page \o <<Msg("name"), Msg("price"), Msg("marketcap"), Msg("pe")>>
            /\ info' = q
            /\ pc' = AppAt("history")
    /\ UNCHANGED <<stdout, exitStatus, args, argv, widgets, unhandled, portfolioVars,
                   indicatorVars>>

\* stock.history and the charts
AppHistory(h) ==
    /\ pc = AppAt("history")
    /\ fetches' = Append(fetches, HistoryFetch("app", widgets.stock_symbol,
                                                widgets.period, h.raised))
    /\ page' = page \o
         (IF h.raised THEN <<Msg("error")>>
          ELSE IF h.close = << >> THEN <<Msg("warning")>>
          ELSE <<Msg("chart"), Msg("rsi")>>)
    /\ pc' = AppAt("news")
    /\ UNCHANGED <<info, stdout, exitStatus, args, argv, widgets, unhandled,
                   portfolioVars, indicatorVars>>

\* the news section
AppNews(n) ==
    /\ pc = AppAt("news")
    /\ fetches' = IF n.key THEN Append(fetches, NewsFetch(widgets.stock_symbol, n.raised))
                  ELSE fetches
    /\ LET news == fetch_news(n)
       IN  page' = Append(page, Msg("news")) \o
                   (IF news # << >>
                    THEN [i \in DOMAIN news |-> ArticleMsg(news[i])]
                    ELSE <<Msg("nonews")>>)
    /\ pc' = AppAt("alert")
    /\ UNCHANGED <<info, stdout, exitStatus, args, argv, widgets, unhandled,
                   portfolioVars, indicatorVars>>

\* the alert section: the condition reads the local 'info', which has no
\* value when stock.info raised
AppAlert(m) ==
    /\ pc = AppAt("alert")
    /\ IF ~(widgets.set_alert /\ widgets.alert_email # << >>)
       THEN /\ page' = Append(page, Msg("alert"))
            /\ UNCHANGED <<fetches, unhandled>>
            /\ pc' = AppAt("done")
       ELSE IF info = NoInfo
       THEN /\ page' = Append(page, Msg("alert"))
            /\ unhandled' = "UnboundLocalError"
            /\ UNCHANGED fetches
            /\ pc' = AppAt("raised")
       ELSE IF ~(info.currentPrice.kind = "num" /\ info.currentPrice.val # 0
                 /\ widgets.alert_price > 0)
       THEN /\ page' = Append(page, Msg("alert"))
            /\ UNCHANGED <<fetches, unhandled>>
            /\ pc' = AppAt("done")
       ELSE IF info.currentPrice.val > widgets.alert_price
       THEN /\ fetches' = IF m.config
                          THEN Append(fetches, MailSend(widgets.stock_symbol, m.raised))
                          ELSE fetches
            /\ page' = page \o
                 <<Msg("alert"),
                   IF send_email_alert(widgets.alert_email, m)
                   THEN Msg("sent") ELSE Msg("notsent")>>
            /\ UNCHANGED unhandled
            /\ pc' = AppAt("done")
       ELSE /\ page' = page \o <<Msg("alert"), Msg("below")>>
            /\ UNCHANGED <<fetches, unhandled>>
            /\ pc' = AppAt("done")
    /\ UNCHANGED <<info, stdout, exitStatus, args, argv, widgets, portfolioVars,
                   indicatorVars>>

----------------------------------------------------------------------------
(* Specifications *)

IdlePortfolio == stocks = PortfolioInit /\ lastCall = NoCall
IdleIndicators == closes = << >> /\ df = NoColumns
IdleCli ==
    /\ pc = <<"main", 0, "idle">>
    /\ argv = << >>
    /\ args = DefaultNamespace
    /\ info = NoInfo
    /\ stdout = << >>
    /\ page = << >>
    /\ fetches = << >>
    /\ exitStatus = Running
    /\ widgets = NoWidgets
    /\ unhandled = NoException

\* a new Portfolio
Init == IdlePortfolio /\ IdleIndicators /\ IdleCli

Next ==
    \/ \E symbol \in Symbols, shares \in ShareArgs : AddStock(symbol, shares)
    \/ \E symbol \in Symbols, shares \in ShareArgs : RemoveStock(symbol, shares)
    \/ \E quote \in Quotes(stocks) : GetValue(quote)

Spec == Init /\ [][Next]_vars

\* a history handed to add_technical_indicators
InitInd ==
    /\ closes \in CloseSeries
    /\ df = NoColumns
    /\ IdlePortfolio
    /\ IdleCli

NextInd == AddTechnicalIndicators

SpecInd == InitInd /\ [][NextInd]_vars

\* the interpreter starts app.py with arguments
InitCli ==
    /\ pc = <<"main", 1, "start">>
    /\ argv \in Argvs
    /\ args = DefaultNamespace
    /\ info = NoInfo
    /\ stdout = << >>
    /\ page = << >>
    /\ fetches = << >>
    /\ exitStatus = Running
    /\ widgets = NoWidgets
    /\ unhandled = NoException
    /\ IdlePortfolio
    /\ IdleIndicators

NextCli ==
    \/ MainStart
    \/ \E r \in Runs : RunCliStart(r)
    \/ \E r \in Runs, q \in InfoOutcomes : RunCliQuote(r, q)
    \/ \E r \in Runs, h \in HistoryOutcomes : RunCliHistory(r, h)
    \/ DashboardStart
    \/ \E q \in InfoOutcomes : DashboardQuote(q)
    \/ \E h \in HistoryOutcomes : DashboardHistory(h)
    \/ DashboardFooter
    \/ Exit

SpecCli == InitCli /\ [][NextCli]_vars

\* a script run of a session in which Analyze is pressed
InitApp ==
    /\ pc = AppAt("sidebar")
    /\ widgets \in WidgetValues
    /\ unhandled = NoException
    /\ argv = << >>
    /\ args = DefaultNamespace
    /\ info = NoInfo
    /\ stdout = << >>
    /\ page = << >>
    /\ fetches = << >>
    /\ exitStatus = Running
    /\ stocks \in SessionPortfolios
    /\ lastCall = NoCall
    /\ IdleIndicators

NextApp ==
    \/ \E quote \in Quotes(AfterForm(stocks, widgets)) : AppSidebar(quote)
    \/ \E q \in InfoOutcomes : AppQuote(q)
    \/ \E h \in HistoryOutcomes : AppHistory(h)
    \/ \E n \in NewsOutcomes : AppNews(n)
    \/ \E m \in MailOutcomes : AppAlert(m)

SpecApp == InitApp /\ [][NextApp]_vars

----------------------------------------------------------------------------
(* Properties of the Portfolio (specification Spec) *)

\* C1: every entry of the holdings mapping has a strictly positive share
\* count, whatever add_stock and remove_stock calls were made.
C1_PositiveHoldings == \A i \in DOMAIN stocks : stocks[i].shares > 0

\* C2: add_stock(sym, k) with k > 0 immediately followed by remove_stock(sym, k)
\* leaves the holdings mapping equal to what it was before the add.
C2_AddThenRemoveRestores ==
    [][(/\ lastCall.op = "add_stock"
        /\ lastCall.shares > 0
        /\ lastCall'.op = "remove_stock"
        /\ lastCall'.symbol = lastCall.symbol
        /\ lastCall'.shares = lastCall.shares)
       => Mapping(stocks') = Mapping(lastCall.before)]_vars

\* C3: add_stock with shares <= 0 fails with an invalid-argument error and
\* leaves the holdings mapping as it was.
C3_AddRejectsNonPositive ==
    (lastCall.op = "add_stock" /\ lastCall.shares <= 0)
        => (lastCall.raised /\ stocks = lastCall.before)

\* the holdings of the symbols other than sym are the same in d and e
SameOthers(d, e, sym) ==
    /\ Keys(d) \ {sym} = Keys(e) \ {sym}
    /\ \A s \in Keys(d) \ {sym} : DictGet(d, s, 0) = DictGet(e, s, 0)

\* C4: remove_stock(sym, k) never fails and never leaves a negative count:
\* sym not held - nothing changes; k at least the held count - the holding
\* is removed; otherwise the count decreases by exactly k.
C4_RemoveClamps ==
    lastCall.op = "remove_stock" =>
        LET sym == upper(lastCall.symbol)
            k == lastCall.shares
            before == lastCall.before
            held == DictGet(before, sym, 0)
        IN  /\ ~lastCall.raised
            /\ Contains(stocks, sym) => DictGet(stocks, sym, 0) > 0
            /\ ~Contains(before, sym) => stocks = before
            /\ (Contains(before, sym) /\ k >= held) =>
                   (~Contains(stocks, sym) /\ SameOthers(before, stocks, sym))
            /\ (Contains(before, sym) /\ k < held) =>
                   /\ Contains(stocks, sym)
                   /\ DictGet(stocks, sym, 0) = held - k
                   /\ SameOthers(before, stocks, sym)

\* a remove of more shares than are held has deleted the holding
C4_Witness ==
    /\ lastCall.op = "remove_stock"
    /\ Contains(lastCall.before, upper(lastCall.symbol))
    /\ DictGet(lastCall.before, upper(lastCall.symbol), 0) > 0
    /\ lastCall.shares > DictGet(lastCall.before, upper(lastCall.symbol), 0)
    /\ ~Contains(stocks, upper(lastCall.symbol))
    /\ stocks # << >>

\* the sum of f over the finite set S
RECURSIVE SumOver(_, _)
SumOver(S, f) ==
    IF S = {} THEN 0
    ELSE LET s == CHOOSE x \in S : TRUE IN f[s] + SumOver(S \ {s}, f)

\* the lookup of symbol s succeeded with a price
Priced(quote, s) == ~quote[s].raised /\ quote[s].currentPrice.kind = "num"

\* C5: get_value never raises and returns the sum of price * shares over the
\* holdings whose lookup succeeds with a price; a holding whose lookup
\* raises or gives no price (absent or None) contributes 0, and the
\* holdings after it are still counted.
C5_ValueSkipsFailures ==
    lastCall.op = "get_value" =>
        LET d == lastCall.before
            quote == lastCall.quote
            worth == [s \in Keys(d) |->
                         IF Priced(quote, s)
                         THEN quote[s].currentPrice.val * DictGet(d, s, 0)
                         ELSE 0]
        IN  /\ ~lastCall.raised
            /\ lastCall.result = SumOver(Keys(d), worth)
            /\ stocks = d

\* two holdings, the lookup of the first raises, and the result is the
\* contribution of the second
C5_Witness ==
    /\ lastCall.op = "get_value"
    /\ Len(stocks) = 2
    /\ lastCall.quote[stocks[1].symbol].raised
    /\ Priced(lastCall.quote, stocks[2].symbol)
    /\ stocks[2].shares > 0
    /\ lastCall.result = lastCall.quote[stocks[2].symbol].currentPrice.val * stocks[2].shares
    /\ lastCall.result > 0

----------------------------------------------------------------------------
(* Properties of add_technical_indicators (specification SpecInd) *)

\* close[from] + ... + close[to], the closes being whole numbers
RECURSIVE SumCloses(_, _, _)
SumCloses(x, from, to) ==
    IF from > to THEN 0 ELSE x[to].n + SumCloses(x, from, to - 1)

\* column ma is the w-bar moving average of the closes
IsMovingAverage(ma, x, w) ==
    /\ Len(ma) = Len(x)
    /\ \A i \in DOMAIN x :
          /\ IsNum(ma[i]) <=> i >= w
          /\ i < w => IsNaN(ma[i])
          /\ i >= w => ma[i].n * w = ma[i].d * SumCloses(x, i - w + 1, i)

\* C6: the moving average at a position is defined iff at least w bars end
\* there (w = 20 for MA20, 50 for MA50), and then it is the mean of the w
\* most recent closes; a series shorter than w gives only undefined values.
C6_MovingAverages ==
    df.added =>
        /\ IsMovingAverage(df.MA20, closes, MA20Window)
        /\ IsMovingAverage(df.MA50, closes, MA50Window)

\* a series long enough for MA50, not constant over its last 50 bars
C6_Witness ==
    /\ df.added
    /\ Len(closes) > MA50Window
    /\ IsNum(df.MA50[Len(closes)])
    /\ IsNaN(df.MA50[MA50Window - 1])
    /\ ~FEq(df.MA50[Len(closes)], closes[Len(closes)])
    /\ ~FEq(df.MA20[Len(closes)], df.MA50[Len(closes)])

\* C7: the RSI is undefined at every position with fewer than
\* rsi_window + 1 bars up to and including it.
C7_RsiNeedsFifteenBars ==
    df.added =>
        \A i \in DOMAIN closes : i < RSIWindow + 1 => IsNaN(df.RSI[i])

\* close[i] - close[i-1] for i > 1
Delta(x, i) == x[i].n - x[i - 1].n

\* the positions of the deltas in the trailing window that ends at i
DeltaWindow(i) == (i - RSIWindow + 1)..i

\* C8: where the trailing window of 14 deltas is full, the RSI is exactly
\* 100 if every delta is >= 0 and one is > 0, undefined if every delta is
\* 0, and otherwise in [0, 100].
C8_RsiRange ==
    df.added =>
        \A i \in DOMAIN closes : i >= RSIWindow + 1 =>
            LET up == \E j \in DeltaWindow(i) : Delta(closes, j) > 0
                down == \E j \in DeltaWindow(i) : Delta(closes, j) < 0
            IN  /\ (up /\ ~down) => FEq(df.RSI[i], Float(100))
                /\ (~up /\ ~down) => IsNaN(df.RSI[i])
                /\ down => (FLeq(Float(0), df.RSI[i]) /\ FLeq(df.RSI[i], Float(100)))

\* a full window of rises gives 100 and a later window of rises and falls
\* gives a value strictly between 0 and 100
C8_Witness ==
    /\ df.added
    /\ \E i \in DOMAIN closes :
          /\ i >= RSIWindow + 1
          /\ \A j \in DeltaWindow(i) : Delta(closes, j) > 0
          /\ FEq(df.RSI[i], Float(100))
    /\ \E i \in DOMAIN closes :
          /\ i >= RSIWindow + 1
          /\ IsNum(df.RSI[i])
          /\ ~FLeq(df.RSI[i], Float(0))
          /\ ~FLeq(Float(100), df.RSI[i])

----------------------------------------------------------------------------
(* Properties of the command-line run (specification SpecCli) *)

Done == pc = <<"main", 2, "done">>

Printed(kind) == \E i \in DOMAIN stdout : stdout[i].kind = kind

\* the command line is one argparse accepts, and it has no --symbol
WithoutSymbol ==
    /\ parse_args(argv).exit = "none"
    /\ ~parse_args(argv).ns.symbol.given

\* C9: a run with arguments but without --symbol prints the usage message
\* and issues no quote or history request from its start to its end.
C9_NoFetchWithoutSymbol ==
    WithoutSymbol =>
        /\ fetches = << >>
        /\ (Done /\ ~parse_args(argv).ns.portfolio) => Printed("usage")

\* a quote or history request of run_cli raised
CliFetchRaised ==
    \E i \in DOMAIN fetches : fetches[i].by = "run_cli" /\ fetches[i].raised

\* C10: a run with --symbol whose quote or history request raises prints
\* an error line and ends with a non-zero exit status.
C10_GatewayFailureExitsNonZero ==
    (Done /\ args.symbol.given /\ CliFetchRaised) =>
        (Printed("error") /\ exitStatus.exited /\ exitStatus.code # 0)

----------------------------------------------------------------------------
(* Properties of the Analyze interaction (specification SpecApp) *)

Shown(kind) == \E i \in DOMAIN page : page[i].kind = kind

\* a request of the interaction of this kind raised
AppRaised(kind) ==
    \E i \in DOMAIN fetches :
        fetches[i].by = "app" /\ fetches[i].kind = kind /\ fetches[i].raised

AppEnded == pc \in {AppAt("done"), AppAt("raised")}

\* C11: in one Analyze interaction the quote/history, news and email
\* sources are isolated: whichever of them fail, no unhandled exception
\* escapes, the news section and the alert section are still processed,
\* and each failure is reported through a user message.
C11_SourcesIsolated ==
    /\ unhandled = NoException
    /\ AppEnded =>
          /\ pc = AppAt("done")
          /\ Shown("news") /\ Shown("alert")
          /\ (AppRaised("quote") \/ AppRaised("history")) => Shown("error")
          /\ AppRaised("news") => Shown("nonews")
          /\ AppRaised("smtp") => Shown("notsent")

====
